---- MODULE Spec2Model ----
(***************************************************************************)
(* Model of app/modules/spending_tracker.py: the spending entry form of    *)
(* the personal-finance Dash app.  The state is the SQLite store (the      *)
(* categories and spending tables), the browser-side widget state that     *)
(* feeds the callbacks (dropdown options, dropdown value, modal flag) and  *)
(* a record of the last callback invocation (its arguments, what it        *)
(* returned or raised, and what it did to the connection).                 *)
(*                                                                         *)
(* Python values are encoded as follows.                                   *)
(*   str        a sequence of one-character strings                        *)
(*   Optional   None is <<>>, a present value v is <<v>>                   *)
(*   literal text inside a message is one element of the sequence, the     *)
(*   interpolated values are spliced in character by character             *)
(***************************************************************************)
EXTENDS Integers, Sequences, FiniteSets, TLC

VARIABLES categories, spending, options, value, is_open, call

vars == <<categories, spending, options, value, is_open, call>>

(***************************** bounds **************************************)
MaxCats == 2      \* rows the categories table may grow to
MaxRows == 1      \* rows the spending table may grow to

(***************************** Python values *******************************)
None == <<>>
Some(v) == <<v>>
IsNone(x) == x = None

\* str(int): decimal digits, a leading "-" for negative numbers
Digit(d) ==
    CASE d = 0 -> "0" [] d = 1 -> "1" [] d = 2 -> "2" [] d = 3 -> "3"
      [] d = 4 -> "4" [] d = 5 -> "5" [] d = 6 -> "6" [] d = 7 -> "7"
      [] d = 8 -> "8" [] d = 9 -> "9"

RECURSIVE NatStr(_)
NatStr(n) == IF n < 10 THEN <<Digit(n)>> ELSE NatStr(n \div 10) \o <<Digit(n % 10)>>

str(n) == IF n < 0 THEN <<"-">> \o NatStr(0 - n) ELSE NatStr(n)

\* sub in s, for two Python strings
Contains(sub, s) ==
    \E i \in 0..(Len(s) - Len(sub)) : SubSeq(s, i + 1, i + Len(sub)) = sub

\* characters for which str.isalnum is true, among those the model uses
Letters == {"a", "d", "o", "A", "D", "E", "F", "N", "W"}
Digits == {"0", "1", "2", "4"}
AlnumChars == Letters \cup Digits

isalnum_underscore(s) == Len(s) > 0 /\ \A i \in 1..Len(s) : s[i] \in AlnumChars \cup {"_"}

\* str.isalnum: at least one character and every character a letter or digit
isalnum(s) == Len(s) > 0 /\ \A i \in 1..Len(s) : s[i] \in AlnumChars

\* bool(x) for an Optional[str]: None and '' are false
Truthy(x) == ~IsNone(x) /\ x[1] # <<>>

(***************************** components **********************************)
ADD_NEW == <<"A", "D", "D", "_", "N", "E", "W">>

Alert(children, color, duration) ==
    [kind |-> "Alert", children |-> children, color |-> color, duration |-> duration]

no_update == [kind |-> "no_update"]

\* the options list as built by layout()
updated_dropdown_options(cats) ==
    [i \in 1..Len(cats) |-> [label |-> cats[i], value |-> cats[i]]]
        \o <<[label |-> <<"Add new">>, value |-> ADD_NEW]>>

\* the options list as rebuilt by update_category_dropdown
updated_options(cats) ==
    [i \in 1..Len(cats) |-> [label |-> cats[i], value |-> cats[i]]]
        \o <<[label |-> <<"Add new">>, value |-> ADD_NEW]>>

(***************************** category repository *************************)
\* modules.database: list_categories() -> sequence of names
get_categories(cats) == cats

\* modules.database: create_category(name); no uniqueness check
add_category_to_db(cats, category_name) == Append(cats, category_name)

(***************************** inputs **************************************)
\* texts a user may type: nothing, letters and a digit, with a space, with
\* punctuation, with an underscore, the sentinel's own value
Texts == {<<>>, <<"a", "1">>, <<"a", " ">>, <<"F", "!">>, <<"a", "_">>, ADD_NEW}

\* new_category_input.value: absent until something is typed
NewCategoryInputs == {None} \cup {Some(t) : t \in Texts}

\* n_clicks: absent, or a count
ClickCounts == {None} \cup {Some(n) : n \in (0 - 1)..2}

\* spending_amount.value: absent while the field is empty
Amounts == {None, Some(0), Some(42)}

\* where the category repository raises, if at all
RepoFailures == {"none", "add_category_to_db", "get_categories"}

\* where sqlite3 raises in update_output, if at all
SqliteFailures == {"none", "connect", "execute", "commit"}

ErrorText(fail) ==
    CASE fail = "connect" -> <<"unable to open database file">>
      [] fail = "execute" -> <<"no such table: spending">>
      [] fail = "commit" -> <<"database is locked">>

(***************************** toggle_modal ********************************)
toggle_modal_is_sentinel(selected_value, open) ==
    Truthy(selected_value) /\ Contains(ADD_NEW, selected_value[1])

toggle_modal(selected_value, open) ==
    IF Truthy(selected_value) /\ Contains(ADD_NEW, selected_value[1])
    THEN TRUE
    ELSE open

(***************************** update_category_dropdown ********************)
\* the first early return: n_clicks is None or not new_category
ShortCircuit(n_clicks, new_category) == IsNone(n_clicks) \/ ~Truthy(new_category)

SuccessText(new_category) ==
    <<"Category \"">> \o new_category \o <<"\" added successfully!">>

\* Returns what the callback returned (ret) or the exception that left it
\* (raised), and the categories table afterwards.
update_category_dropdown(n_clicks, new_category, cats, fail) ==
    IF ShortCircuit(n_clicks, new_category)
    THEN [raised |-> None, categories |-> cats,
          ret |-> [options |-> no_update, value |-> <<>>, alert |-> [kind |-> "None"]]]
    ELSE IF ~isalnum(new_category[1])
    THEN [raised |-> None, categories |-> cats,
          ret |-> [options |-> no_update, value |-> <<>>,
                   alert |-> Alert(<<"Invalid category name.">>, "warning", None)]]
    ELSE IF fail = "add_category_to_db"
    THEN [raised |-> Some("Exception"), categories |-> cats]
    ELSE LET stored == add_category_to_db(cats, new_category[1])
         IN  IF fail = "get_categories"
             THEN [raised |-> Some("Exception"), categories |-> stored]
             ELSE [raised |-> None, categories |-> stored,
                   ret |-> [options |-> [kind |-> "options",
                                         list |-> updated_options(get_categories(stored))],
                            value |-> <<>>,
                            alert |-> Alert(SuccessText(new_category[1]), "success", None)]]

(***************************** update_output *******************************)
Clicked_or_zero(n_clicks) == n_clicks[1] >= 0

Clicked_more_than_once(n_clicks) == n_clicks[1] > 1

\* n_clicks > 0
Clicked(n_clicks) == n_clicks[1] > 0

MissingInput_falsy(amount, category) ==
    IsNone(amount) \/ amount[1] = 0 \/ ~Truthy(category)

\* amount is None or category is None
MissingInput(amount, category) == IsNone(amount) \/ IsNone(category)

InsertSpending_replace(rows, amount, category) == <<<<amount, category>>>>

\* INSERT INTO spending (amount, category) VALUES (?, ?)
InsertSpending(rows, amount, category) == Append(rows, <<amount, category>>)

AddedText(amount, category) ==
    <<"Amount: ">> \o str(amount) \o <<", Category: ">> \o category
        \o <<" added successfully!">>

\* The try / except sqlite3.Error / finally block.  conn is bound only when
\* sqlite3.connect returned; the finally clause calls conn.close() on every
\* path, and with conn unbound that call raises UnboundLocalError, which
\* replaces the return pending in the except clause.  A row inserted but not
\* committed is rolled back when the connection is closed.
StoreSpending(amount, category, rows, fail) ==
    LET connected == fail # "connect"
        executed == connected /\ fail # "execute"
        committed == executed /\ fail # "commit"
    IN  IF ~connected
        THEN [raised |-> Some("UnboundLocalError"), spending |-> rows,
              conn_opened |-> FALSE, conn_closed |-> FALSE]
        ELSE IF ~committed
        THEN [raised |-> None, spending |-> rows,
              conn_opened |-> TRUE, conn_closed |-> TRUE,
              ret |-> Alert(<<"Database error: ">> \o ErrorText(fail), "danger", Some(3000))]
        ELSE [raised |-> None, spending |-> InsertSpending(rows, amount, category),
              conn_opened |-> TRUE, conn_closed |-> TRUE,
              ret |-> Alert(AddedText(amount, category), "success", Some(3000))]

NoStore(rows, ret) ==
    [raised |-> None, spending |-> rows, conn_opened |-> FALSE, conn_closed |-> FALSE,
     ret |-> ret]

update_output(n_clicks, amount, category, rows, fail) ==
    IF IsNone(n_clicks)
    THEN NoStore(rows, no_update)
    ELSE IF Clicked(n_clicks)
    THEN IF MissingInput(amount, category)
         THEN NoStore(rows, Alert(<<"Please enter a valid amount and select a category">>,
                                  "danger", Some(3000)))
         ELSE StoreSpending(amount[1], category[1], rows, fail)
    ELSE NoStore(rows, Alert(<<"Enter amount and select a category">>, "warning", Some(3000)))

(***************************** state machine *******************************)
\* the invocations that get as far as add_category_to_db
CallsRepository(n_clicks, new_category) ==
    ~ShortCircuit(n_clicks, new_category) /\ isalnum(new_category[1])

\* the invocations that get as far as sqlite3.connect
CallsSqlite(n_clicks, amount, category) ==
    ~IsNone(n_clicks) /\ Clicked(n_clicks) /\ ~MissingInput(amount, category)

Before == [categories |-> categories, spending |-> spending]

\* an existing store whose names were created through this form
InitialCategories == {<<>>, <<<<"F", "o", "o", "d">>>>}

Init ==
    /\ categories \in InitialCategories
    /\ spending = <<>>
    /\ options = updated_dropdown_options(get_categories(categories))
    /\ value = None
    /\ is_open = FALSE
    /\ call = [op |-> "layout"]

\* the page is loaded: layout() builds the form from the stored categories,
\* with nothing selected and the modal closed
layout ==
    /\ options' = updated_dropdown_options(get_categories(categories))
    /\ value' = None
    /\ is_open' = FALSE
    /\ call' = [op |-> "layout"]
    /\ UNCHANGED <<categories, spending>>

\* the user picks an entry of the dropdown (or clears it); the change of
\* category_dropdown.value fires toggle_modal
Select ==
    \E v \in {None} \cup {Some(options[i].value) : i \in 1..Len(options)} :
        /\ value' = v
        /\ is_open' = toggle_modal(v, is_open)
        /\ call' = [op |-> "toggle_modal", selected_value |-> v, is_open |-> is_open,
                    ret |-> toggle_modal(v, is_open), before |-> Before]
        /\ UNCHANGED <<categories, spending, options>>

\* add_new_category_button fires update_category_dropdown; the repository
\* can only fail in a call that is made
AddCategory ==
    \E n \in ClickCounts, t \in NewCategoryInputs :
      \E fail \in IF CallsRepository(n, t) THEN RepoFailures ELSE {"none"} :
        LET r == update_category_dropdown(n, t, categories, fail)
        IN  /\ Len(r.categories) <= MaxCats
            /\ categories' = r.categories
            /\ options' = IF IsNone(r.raised) /\ r.ret.options.kind = "options"
                          THEN r.ret.options.list
                          ELSE options
            /\ call' = [op |-> "update_category_dropdown", n_clicks |-> n,
                        new_category |-> t, fail |-> fail, result |-> r,
                        before |-> Before]
            /\ UNCHANGED <<spending, value, is_open>>

\* submit_button fires update_output with the form's amount and the
\* dropdown's current value; sqlite3 can only fail in a call that is made
Submit ==
    \E n \in ClickCounts, amount \in Amounts :
      \E fail \in IF CallsSqlite(n, amount, value) THEN SqliteFailures ELSE {"none"} :
        LET r == update_output(n, amount, value, spending, fail)
        IN  /\ Len(r.spending) <= MaxRows
            /\ spending' = r.spending
            /\ call' = [op |-> "update_output", n_clicks |-> n, amount |-> amount,
                        category |-> value, fail |-> fail, result |-> r,
                        before |-> Before]
            /\ UNCHANGED <<categories, options, value, is_open>>

Next == layout \/ Select \/ AddCategory \/ Submit

Spec == Init /\ [][Next]_vars

(***************************** vocabulary of the claims ********************)
Positive(n_clicks) == ~IsNone(n_clicks) /\ n_clicks[1] > 0

\* letters and digits only, and at least one of them
Alphanumeric(s) == s # <<>> /\ \A i \in 1..Len(s) : s[i] \in Letters \cup Digits

Range(seq) == {seq[i] : i \in 1..Len(seq)}

IsPrefix(s, t) == Len(s) <= Len(t) /\ SubSeq(t, 1, Len(s)) = s

\* how many options carry the value v
Offered(v, opts) == Cardinality({i \in 1..Len(opts) : opts[i].value = v})

\* how many rows of the categories table hold the name v
Stored(v, cats) == Cardinality({i \in 1..Len(cats) : cats[i] = v})

EndsWithSentinel(opts) == Len(opts) > 0 /\ opts[Len(opts)].value = ADD_NEW

StoreUnchanged ==
    /\ categories = call.before.categories
    /\ spending = call.before.spending

\* the last invocation was update_category_dropdown with a positive click
\* count and an alphanumeric text, and the repository did not fail
AddCase ==
    /\ call.op = "update_category_dropdown"
    /\ Positive(call.n_clicks)
    /\ ~IsNone(call.new_category)
    /\ Alphanumeric(call.new_category[1])
    /\ call.fail = "none"

\* C1: adding an alphanumeric name S with a positive click count stores S,
\* returns options in which S appears exactly once, followed by the sentinel,
\* clears the text field and returns a success alert whose text contains S.
C1_AddedExactlyOnce ==
    AddCase =>
        LET S == call.new_category[1]
            r == call.result
        IN  /\ IsNone(r.raised)
            /\ categories = Append(call.before.categories, S)
            /\ r.ret.options.kind = "options"
            /\ Offered(S, r.ret.options.list) = 1
            /\ EndsWithSentinel(r.ret.options.list)
            /\ r.ret.value = <<>>
            /\ r.ret.alert.kind = "Alert"
            /\ r.ret.alert.color = "success"
            /\ Contains(S, r.ret.alert.children)

\* the last invocation was update_category_dropdown with a click count that
\* is not absent and a non-empty text that is not alphanumeric
InvalidNameCase ==
    /\ call.op = "update_category_dropdown"
    /\ ~IsNone(call.n_clicks)
    /\ ~IsNone(call.new_category)
    /\ call.new_category[1] # <<>>
    /\ ~Alphanumeric(call.new_category[1])

\* C2: a non-empty text that is not alphanumeric, with any click count that
\* is not absent, is answered by the warning alert "Invalid category name.",
\* no update of the options, and an unchanged store.
C2_InvalidNameRejected ==
    InvalidNameCase =>
        /\ IsNone(call.result.raised)
        /\ call.result.ret.alert = Alert(<<"Invalid category name.">>, "warning", None)
        /\ call.result.ret.options.kind = "no_update"
        /\ StoreUnchanged

C2_Witness ==
    /\ InvalidNameCase
    /\ call.new_category[1] = <<"a", " ">>
    /\ Len(categories) > 0

\* the last invocation was update_output with a positive click count, an
\* amount and a category, and sqlite3 did not fail
SubmitCase ==
    /\ call.op = "update_output"
    /\ Positive(call.n_clicks)
    /\ ~IsNone(call.amount)
    /\ ~IsNone(call.category)
    /\ call.fail = "none"

\* C3: a submit with a positive click count, an amount and a category, when
\* storage does not fail, appends exactly the row (amount, category) to the
\* spending table, leaves the categories table alone and returns a success
\* alert whose text contains the amount and the category.
C3_SubmitAppendsOneRow ==
    SubmitCase =>
        LET r == call.result
        IN  /\ IsNone(r.raised)
            /\ spending = Append(call.before.spending, <<call.amount[1], call.category[1]>>)
            /\ categories = call.before.categories
            /\ r.ret.kind = "Alert"
            /\ r.ret.color = "success"
            /\ Contains(str(call.amount[1]), r.ret.children)
            /\ Contains(call.category[1], r.ret.children)

C3_Witness ==
    /\ SubmitCase
    /\ call.amount = Some(0)
    /\ call.category[1] \in Range(categories)

\* the last invocation was update_output with a positive click count and the
\* amount or the category missing
MissingCase ==
    /\ call.op = "update_output"
    /\ Positive(call.n_clicks)
    /\ (IsNone(call.amount) \/ IsNone(call.category))

\* C4: a submit with a positive click count and the amount or the category
\* missing returns the danger alert "Please enter a valid amount and select a
\* category", opens no connection and leaves the spending table unchanged.
C4_MissingInputRejected ==
    MissingCase =>
        /\ IsNone(call.result.raised)
        /\ call.result.ret =
               Alert(<<"Please enter a valid amount and select a category">>,
                     "danger", Some(3000))
        /\ ~call.result.conn_opened
        /\ spending = call.before.spending

C4_Witness ==
    /\ MissingCase
    /\ ~IsNone(call.amount)
    /\ IsNone(call.category)

\* C5: toggle_modal returns true when the selected value is the sentinel and
\* the flag it was given for every other selected value; it never closes an
\* open dialog and does not touch the store.
C5_ToggleModal ==
    call.op = "toggle_modal" =>
        /\ call.ret = (IF call.selected_value = Some(ADD_NEW) THEN TRUE ELSE call.is_open)
        /\ (call.is_open => call.ret)
        /\ is_open = call.ret
        /\ StoreUnchanged

C5_Witness ==
    /\ call.op = "toggle_modal"
    /\ ~IsNone(call.selected_value)
    /\ call.selected_value[1] \in Range(categories)
    /\ call.is_open
    /\ is_open

\* C6: with the click count absent or zero, or the text absent or empty,
\* update_category_dropdown changes nothing in the store and returns no
\* update of the options, an empty text field and no alert.
C6_ShortCircuit ==
    ( /\ call.op = "update_category_dropdown"
      /\ \/ IsNone(call.n_clicks)
         \/ call.n_clicks = Some(0)
         \/ IsNone(call.new_category)
         \/ call.new_category = Some(<<>>) ) =>
        /\ IsNone(call.result.raised)
        /\ call.result.ret.options.kind = "no_update"
        /\ call.result.ret.value = <<>>
        /\ call.result.ret.alert.kind = "None"
        /\ StoreUnchanged

\* C7: update_output never ends with an uncaught exception and closes every
\* connection it opened; when a storage step fails it returns a danger alert
\* carrying the error text and persists no row.
C7_StorageFailureHandled ==
    call.op = "update_output" =>
        LET r == call.result
        IN  /\ IsNone(r.raised)
            /\ (r.conn_opened => r.conn_closed)
            /\ call.fail # "none" =>
                   /\ r.ret.kind = "Alert"
                   /\ r.ret.color = "danger"
                   /\ Contains(ErrorText(call.fail), r.ret.children)
                   /\ spending = call.before.spending

\* the last invocation was update_output with the click count absent, zero
\* or negative
NoTriggerCase ==
    /\ call.op = "update_output"
    /\ (IsNone(call.n_clicks) \/ call.n_clicks[1] <= 0)

\* C8: update_output returns no update when the click count is absent and the
\* warning alert "Enter amount and select a category" when it is zero or
\* less; in both cases no row is inserted.
C8_NoValidTrigger ==
    NoTriggerCase =>
        /\ IsNone(call.result.raised)
        /\ call.result.ret =
               (IF IsNone(call.n_clicks)
                THEN no_update
                ELSE Alert(<<"Enter amount and select a category">>, "warning", Some(3000)))
        /\ spending = call.before.spending

C8_Witness ==
    /\ NoTriggerCase
    /\ call.n_clicks = Some(0)
    /\ ~IsNone(call.amount)
    /\ ~IsNone(call.category)

C10_ReferentialIntegrity ==
    \A i \in 1..Len(spending) :
        /\ spending[i][2] \in Range(categories)
        /\ spending[i][2] # ADD_NEW

====
